---- MODULE Spec2Model ----
(***************************************************************************)
(* spych wake-word detection: SpychWake (the coordinator), its pool of     *)
(* SpychWakeListener workers, the start() scheduling loop and the soft     *)
(* locking done by wake().  Modelled from src/spych/wake.py and            *)
(* src/spych/utils.py.                                                     *)
(*                                                                         *)
(* Words and transcribed texts are sequences of character codes, so that   *)
(* str.lower() and the substring test `wake_word in text` are computed.    *)
(* A Python dict is a sequence of [k, v] items with unique keys, in        *)
(* insertion order.                                                        *)
(***************************************************************************)
EXTENDS Integers, Sequences, FiniteSets, Bags, TLC

\* ------------------------------------------------------------------ bounds
\* number of SpychWakeListener workers in the pool (wake_listener_count)
wake_listener_count == 2
\* most listener threads alive at once (start() launches them fire-and-forget)
MaxThreads == 2
\* most segments one transcription returns
MaxSegs == 1
\* most items of the wake_word_map argument, most entries of terminate_words
MaxMapLen == 2
MaxTerms == 2
\* most segments, and most characters of a segment, when the matching is explored
MaxScanSegs == 2
MaxTextLen == 2
\* seconds one listener records (wake_listener_time), and the estimate of the time
\* one transcription takes (wake_listener_max_processing_time)
wake_listener_time == 2
wake_listener_max_processing_time == 1
\* largest history_length an OllamaResponder is built with, and most entries its
\* conversation is followed for
MaxHistoryLength == 2
MaxSaid == 6

\* ------------------------------------------------------------------ words
w_s == <<115>>
w_S == <<83>>
w_t == <<116>>
w_T == <<84>>
w_x == <<120>>
NoWord == <<>>

\* str.lower() on ASCII text
LowerChar(c) == IF c >= 65 /\ c <= 90 THEN c + 32 ELSE c
Lower(word) == [i \in DOMAIN word |-> LowerChar(word[i])]

\* Python's `word in text` on strings: word is a contiguous part of text
Contains(word, text) ==
    \E i \in 0..Len(text) :
        /\ i + Len(word) <= Len(text)
        /\ \A j \in 1..Len(word) : text[i + j] = word[j]

\* ------------------------------------------------------------------ dicts
Keys(d) == [i \in DOMAIN d |-> d[i].k]
HasKey(d, key) == \E i \in DOMAIN d : d[i].k = key
DictGet(d, key) == d[CHOOSE i \in DOMAIN d : d[i].k = key].v
\* d[key] = val: an existing key keeps its position, a new key is appended
DictSet(d, key, val) ==
    IF HasKey(d, key)
    THEN [i \in DOMAIN d |-> IF d[i].k = key THEN [k |-> key, v |-> val] ELSE d[i]]
    ELSE Append(d, [k |-> key, v |-> val])

RECURSIVE LowerKeys(_)
\* {k.lower(): v for k, v in wake_word_map.items()}
LowerKeys(items) ==
    IF items = <<>> THEN <<>>
    ELSE LET n == Len(items)
         IN DictSet(LowerKeys(SubSeq(items, 1, n - 1)), Lower(items[n].k), items[n].v)

\* [w.lower() for w in terminate_words] if terminate_words else []
LowerTerms(terms) == [i \in DOMAIN terms |-> Lower(terms[i])]

\* (mutant) a notify() that prints every notification and raises none
NotifySilent(notification_type) == FALSE
\* Notify.notify (utils.py 124-143): whether it raises; only "exception" does
notify(notification_type) == notification_type = "exception"

\* ------------------------------------------------------------- constructor
\* (mutant) the iteration without its test: the terminate word takes the key over
TermStep_Overwrite(map, word) ==
    [raises |-> FALSE, map |-> DictSet(map, word, "stop")]

\* one iteration of `for word in self.terminate_words` (wake.py 197-200)
TermStep(map, word) ==
    [raises |-> HasKey(map, word), map |-> DictSet(map, word, "stop")]

RECURSIVE AddTerms(_, _)
\* the whole loop: the map after the terminate words were added, or the raise
AddTerms(map, terms) ==
    IF terms = <<>> THEN [raises |-> FALSE, map |-> map]
    ELSE LET r == TermStep(map, Head(terms))
         IN IF r.raises THEN [raises |-> TRUE, map |-> map]
            ELSE AddTerms(r.map, Tail(terms))

\* (mutant) __init__ that registers the terminate words ahead of the caller's words
Construct_TermsFirst(a_map, a_terms) ==
    LET r == AddTerms(LowerKeys(a_map), LowerTerms(a_terms))
        n == Len(r.map)
        u == Len(LowerKeys(a_map))
    IN [raises |-> r.raises,
        map |-> [i \in 1..n |-> IF i <= n - u THEN r.map[u + i] ELSE r.map[i - (n - u)]]]

\* SpychWake.__init__ as a function of its two word arguments
Construct(a_map, a_terms) == AddTerms(LowerKeys(a_map), LowerTerms(a_terms))

\* the configuration the running system is built from
ConfigMap == << [k |-> w_S, v |-> "cbA"] >>
ConfigTerms == << w_T >>

VARIABLES
    cpc,             \* position of __init__: "new", "terms", "ready", "error"
    arg_map,         \* the wake_word_map argument
    arg_terms,       \* the terminate_words argument (None and [] are both <<>>)
    arg_count,       \* the wake_listener_count argument, kept as self.wake_listener_count
    faulty,          \* the recorder or the whisper model of this run can raise
    ti,              \* index of the terminate word the for loop is at
    wake_word_map,   \* SpychWake.wake_word_map
    terminate_words, \* SpychWake.terminate_words
    locked,          \* SpychWake.locked, the SystemLock
    kill,            \* SpychWake.kill
    wlocked,         \* SpychWakeListener.locked, per worker
    wkill,           \* SpychWakeListener.kill, per worker
    lpc,             \* position of start(): "idle" (not running), a line of the loop,
                     \* "l248" (the interrupt handler), "raised" (ended by an exception)
    li,              \* index of the listener the for loop of start() is at
    launched,        \* the loop started a thread for the listener it is at
    lateLaunch,      \* threads started since stop() set kill, in this run of start()
    slept,           \* the time.sleep() arguments of the current pass of the for loop, summed
    waited,          \* ticks the sleep of line 243 has lasted so far
    gap,             \* ticks since a listener was last recording
    proc_time,       \* the longest a transcription of this run takes, in ticks
    threads,         \* the live listener threads, a bag of records
    history_length,  \* OllamaResponder.history_length
    history,         \* OllamaResponder.history, a list of [role, content] entries
    said             \* every entry respond() has appended to history so far, in order

vars == << cpc, arg_map, arg_terms, arg_count, faulty, ti, wake_word_map,
           terminate_words, locked, kill, wlocked, wkill, lpc, li, launched, lateLaunch,
           slept, waited, gap, proc_time, threads, history_length, history, said >>
ctorVars ==
    << cpc, arg_map, arg_terms, arg_count, faulty, ti, wake_word_map, terminate_words >>
flagVars == << locked, kill, wlocked, wkill >>
respVars == << history_length, history, said >>
clockVars == << waited, gap, proc_time >>
loopVars == << lpc, li, launched, lateLaunch, slept, clockVars >>

\* the pool (212-214): one listener for each i in range(self.wake_listener_count)
Workers == 1..arg_count

\* Durations are counted in ticks of 1/wake_listener_count second, so that the
\* quotient of lines 244-245 is a whole number of ticks: d seconds are d * count ticks.
Ticks(d) == d * arg_count
\* T + P, the time of one pass over the pool
PassTime == Ticks(wake_listener_time) + Ticks(wake_listener_max_processing_time)
\* lines 244-245: (wake_listener_time + wake_listener_max_processing_time) / count
Stagger ==
    (Ticks(wake_listener_time) + Ticks(wake_listener_max_processing_time)) \div arg_count
AllFalse == [w \in Workers |-> FALSE]
AllTrue == [w \in Workers |-> TRUE]

\* history_length of an OllamaResponder when the caller gives none (responders.py 155)
default_history_length == 10
\* OllamaResponder.__init__ (responders.py 199-204): the length is stored as given
\* and the history starts empty
ResponderNew(n) ==
    /\ history_length = n
    /\ history = <<>>
    /\ said = <<>>

\* lines 201-214: the flags and the pool right after construction; the responder
\* (no part of SpychWake) as its own constructor left it
Constructed ==
    /\ ResponderNew(default_history_length)
    /\ locked = FALSE
    /\ kill = FALSE
    /\ wlocked = AllFalse
    /\ wkill = AllFalse
    /\ lpc = "idle"
    /\ li = 1
    /\ launched = FALSE
    /\ lateLaunch = 0
    /\ slept = 0
    /\ waited = 0
    /\ gap = 0
    /\ proc_time = 0
    /\ threads = EmptyBag

Init ==
    /\ cpc = "ready"
    /\ arg_map = ConfigMap
    /\ arg_terms = ConfigTerms
    /\ arg_count = wake_listener_count
    /\ faulty = FALSE
    /\ ti = Len(ConfigTerms) + 1
    /\ wake_word_map = Construct(ConfigMap, ConfigTerms).map
    /\ terminate_words = LowerTerms(ConfigTerms)
    /\ Constructed

\* ---------------------------------------------------------------- threads
\* A listener thread: worker w running SpychWakeListener.__call__ at position pc;
\* heard are the segments transcribe() returned, segs those the for loop has not
\* taken yet, word the argument of wake(), saw the value of SystemLock that line 293
\* read, cb the callback line 297 looked up, ran whether this call of wake() invoked
\* it, raised whether it raised, exc whether an exception is pending, el the ticks
\* the call of record() or transcribe() it is in has lasted.
Thread(w, pc) ==
    [w |-> w, pc |-> pc, heard |-> <<>>, segs |-> <<>>, word |-> NoWord, saw |-> FALSE,
     cb |-> "", ran |-> FALSE, raised |-> FALSE, exc |-> FALSE, el |-> 0]
Live == BagToSet(threads)
At(pc) == {t \in Live : t.pc = pc}
\* the number of live threads at position pc
CountAt(pc) == BagCardinality([t \in At(pc) |-> threads[t]])
Move(t, n) == threads' = (threads (-) SetToBag({t})) (+) SetToBag({n})
Exit(t) == threads' = threads (-) SetToBag({t})

\* what the Transcription Port may return for one segment
Heard == {w_x, w_S, w_t}
RECURSIVE SeqsUpTo(_, _)
SeqsUpTo(S, n) ==
    IF n = 0 THEN {<<>>}
    ELSE LET shorter == SeqsUpTo(S, n - 1)
         IN shorter \cup {Append(q, x) : q \in {r \in shorter : Len(r) = n - 1}, x \in S}
SegLists == SeqsUpTo(Heard, MaxSegs)

\* (mutant) the match hands on the text of the segment, not the wake word found
FirstMatch_Text(wake_words, text) ==
    IF \E i \in DOMAIN wake_words : Contains(wake_words[i], text) THEN text ELSE NoWord

RECURSIVE LastMatch(_, _)
RECURSIVE FirstMatch(_, _)
\* (mutant) the inner loop without its return: the last wake word in text wins
LastMatch(wake_words, text) ==
    IF wake_words = <<>> THEN NoWord
    ELSE IF Contains(wake_words[Len(wake_words)], text) THEN wake_words[Len(wake_words)]
    ELSE LastMatch(SubSeq(wake_words, 1, Len(wake_words) - 1), text)

\* `for wake_word in wake_words: if wake_word in text` (98-99): the first hit
FirstMatch(wake_words, text) ==
    IF wake_words = <<>> THEN NoWord
    ELSE IF Contains(Head(wake_words), text) THEN Head(wake_words)
    ELSE FirstMatch(Tail(wake_words), text)

\* the wake words (keys of wake_word_map) that text contains, by position
KeysIn(text) ==
    {j \in DOMAIN wake_word_map : Contains(wake_word_map[j].k, Lower(text))}

\* (mutant) the reset without `self.kill = False`
ResetFlags_KeepsKill(w) ==
    /\ wkill' = wkill
    /\ wlocked' = [wlocked EXCEPT ![w] = FALSE]

\* (mutant) should_stop that tests the SystemLock only, not its own kill flag
should_stop_LockOnly(w) == locked

\* (mutant) should_stop that tests its own kill flag only, not the SystemLock
should_stop_KillOnly(w) == wkill[w]

\* SpychWakeListener.should_stop (35-53): the test, and the reset it does when true
should_stop(w) == wkill[w] \/ locked
ResetFlags(w) ==
    /\ wkill' = [wkill EXCEPT ![w] = FALSE]
    /\ wlocked' = [wlocked EXCEPT ![w] = FALSE]

\* a checkpoint `if self.should_stop(): return`, going on to position next
Checkpoint(t, next) ==
    IF should_stop(t.w)
    THEN ResetFlags(t.w) /\ Exit(t)
    ELSE Move(t, [t EXCEPT !.pc = next]) /\ UNCHANGED << wkill, wlocked >>

\* line 71: `if self.locked: return`
Listener_l71(t) ==
    /\ t.pc = "l71"
    /\ IF wlocked[t.w] THEN Exit(t) ELSE Move(t, [t EXCEPT !.pc = "cpA"])
    /\ UNCHANGED << ctorVars, respVars, flagVars, loopVars >>

\* line 76: checkpoint A
Listener_cpA(t) ==
    /\ t.pc = "cpA"
    /\ Checkpoint(t, "l78")
    /\ UNCHANGED << ctorVars, respVars, locked, kill, loopVars >>

\* line 78: `self.locked = True`, then record() is entered
Listener_l78(t) ==
    /\ t.pc = "l78"
    /\ wlocked' = [wlocked EXCEPT ![t.w] = TRUE]
    /\ Move(t, [t EXCEPT !.pc = "rec"])
    /\ UNCHANGED << ctorVars, respVars, locked, kill, wkill, loopVars >>

\* lines 79-82: record() returns its buffer, or raises (utils.py 42-53 re-raises
\* what the recorder raised); __call__ has no handler, so the thread ends there
Listener_record(t) ==
    /\ t.pc = "rec"
    /\ \/ Move(t, [t EXCEPT !.pc = "cpB", !.el = 0])
       \/ faulty /\ Exit(t)
    /\ UNCHANGED << ctorVars, respVars, flagVars, loopVars >>

\* line 83: checkpoint B (get_clean_audio_buffer follows, line 85)
Listener_cpB(t) ==
    /\ t.pc = "cpB"
    /\ Checkpoint(t, "cpC")
    /\ UNCHANGED << ctorVars, respVars, locked, kill, loopVars >>

\* line 86: checkpoint C, then transcribe() is entered
Listener_cpC(t) ==
    /\ t.pc = "cpC"
    /\ Checkpoint(t, "trans")
    /\ UNCHANGED << ctorVars, respVars, locked, kill, loopVars >>

\* lines 88-93: transcribe() returns its segments, or raises and the thread ends
Listener_transcribe(t) ==
    /\ t.pc = "trans"
    /\ \/ \E segs \in SegLists :
             Move(t, [t EXCEPT !.pc = "scan", !.heard = segs, !.segs = segs, !.el = 0])
       \/ faulty /\ Exit(t)
    /\ UNCHANGED << ctorVars, respVars, flagVars, loopVars >>

\* lines 94-100: one turn of `for segment in segments`; on a hit wake() is called
\* and the segments not taken yet are left behind (103)
Listener_scan(t) ==
    /\ t.pc = "scan"
    /\ IF t.segs = <<>>
       THEN Move(t, [t EXCEPT !.pc = "end"]) /\ UNCHANGED << wkill, wlocked >>
       ELSE IF should_stop(t.w)
       THEN ResetFlags(t.w) /\ Exit(t)
       ELSE LET text == Lower(Head(t.segs))
                hit == FirstMatch(Keys(wake_word_map), text)
            IN /\ IF hit # NoWord
                  THEN Move(t, [t EXCEPT !.pc = "w_stop", !.segs = Tail(t.segs),
                                         !.word = hit])
                  ELSE Move(t, [t EXCEPT !.segs = Tail(t.segs)])
               /\ UNCHANGED << wkill, wlocked >>
    /\ UNCHANGED << ctorVars, respVars, locked, kill, loopVars >>

\* (mutant) a listener that starts its next cycle itself when one ends
Listener_reset_Relaunches(t) ==
    /\ t.pc \in {"ret", "end"}
    /\ ResetFlags(t.w)
    /\ Move(t, Thread(t.w, "l71"))
    /\ UNCHANGED << ctorVars, respVars, locked, kill, loopVars >>

\* (mutant) the end of the cycle without `self.locked = False`
Listener_reset_KeepsLocked(t) ==
    /\ t.pc \in {"ret", "end"}
    /\ wkill' = [wkill EXCEPT ![t.w] = FALSE]
    /\ Exit(t)
    /\ UNCHANGED << ctorVars, respVars, locked, kill, wlocked, loopVars >>

\* lines 101-103 and 104-105: `self.locked = False; self.kill = False`, the cycle ends
Listener_reset(t) ==
    /\ t.pc \in {"ret", "end"}
    /\ ResetFlags(t.w)
    /\ Exit(t)
    /\ UNCHANGED << ctorVars, respVars, locked, kill, loopVars >>

\* ------------------------------------------------------------------- wake
\* (mutant) stop_listeners that stops the first listener of the pool only
stop_listeners_FirstOnly == wkill' = [w \in Workers |-> wkill[w] \/ w = 1]

\* SpychWake.stop_listeners (257-258): listener.stop() sets kill on every listener
stop_listeners == wkill' = AllTrue

\* (mutant) stop() that forgets `self.kill = True`
stop_ListenersOnly == stop_listeners /\ UNCHANGED kill

\* (mutant) stop() that flips the kill flag instead of setting it
stop_Toggle == stop_listeners /\ kill' = ~kill

\* SpychWake.stop (267-268)
stop == stop_listeners /\ kill' = TRUE

\* line 292: wake() begins with stop_listeners()
Wake_l292(t) ==
    /\ t.pc = "w_stop"
    /\ stop_listeners
    /\ Move(t, [t EXCEPT !.pc = "w_test"])
    /\ UNCHANGED << ctorVars, respVars, locked, kill, wlocked, loopVars >>

\* (mutant) line 293 reads the lock but goes on whatever it read
Wake_l293_Proceeds(t) ==
    /\ t.pc = "w_test"
    /\ Move(t, [t EXCEPT !.pc = "w_set", !.saw = locked])
    /\ UNCHANGED << ctorVars, respVars, flagVars, loopVars >>

\* (mutant) line 293 with the test inverted: `if not self.locked: return`
Wake_l293_Inverted(t) ==
    /\ t.pc = "w_test"
    /\ IF ~locked
       THEN Move(t, [t EXCEPT !.pc = "ret"])
       ELSE Move(t, [t EXCEPT !.pc = "w_set", !.saw = TRUE])
    /\ UNCHANGED << ctorVars, respVars, flagVars, loopVars >>

\* lines 293-294: `if self.locked: return`
Wake_l293(t) ==
    /\ t.pc = "w_test"
    /\ IF locked
       THEN Move(t, [t EXCEPT !.pc = "ret", !.saw = TRUE])
       ELSE Move(t, [t EXCEPT !.pc = "w_set"])
    /\ UNCHANGED << ctorVars, respVars, flagVars, loopVars >>

\* (mutant) line 297 with the callback taken out of the map: wake_word_map.pop(word)()
Wake_l295_Pops(t) ==
    /\ t.pc = "w_set"
    /\ locked' = TRUE
    /\ LET keep == {i \in DOMAIN wake_word_map : wake_word_map[i].k # t.word}
           nth(n) == CHOOSE i \in keep : Cardinality({j \in keep : j < i}) = n - 1
       IN wake_word_map' = [n \in 1..Cardinality(keep) |-> wake_word_map[nth(n)]]
    /\ Move(t, [t EXCEPT !.pc = "cb", !.cb = DictGet(wake_word_map, t.word),
                          !.ran = TRUE])
    /\ UNCHANGED << respVars, cpc, arg_map, arg_terms, arg_count, faulty, ti, terminate_words, kill,
                    wlocked, wkill, loopVars >>

\* (mutant) line 295 as a test-and-set: a call that finds the lock taken by now
\* returns instead of invoking its callback
Wake_l295_TestAndSet(t) ==
    /\ t.pc = "w_set"
    /\ IF locked
       THEN Move(t, [t EXCEPT !.pc = "ret", !.saw = TRUE]) /\ UNCHANGED locked
       ELSE /\ locked' = TRUE
            /\ Move(t, [t EXCEPT !.pc = "cb", !.cb = DictGet(wake_word_map, t.word),
                                  !.ran = TRUE])
    /\ UNCHANGED << ctorVars, respVars, kill, wlocked, wkill, loopVars >>

\* lines 295-297: `self.locked = True`, the callback is looked up and entered
Wake_l295(t) ==
    /\ t.pc = "w_set"
    /\ locked' = TRUE
    /\ Move(t, [t EXCEPT !.pc = "cb", !.cb = DictGet(wake_word_map, t.word),
                          !.ran = TRUE])
    /\ UNCHANGED << ctorVars, respVars, kill, wlocked, wkill, loopVars >>

\* lines 297-302: the callback body ends. The terminate handler is stop(); a
\* caller's callback returns or raises, and the handler of a raise calls notify
Wake_callback(t) ==
    /\ t.pc = "cb"
    /\ IF t.cb = "stop"
       THEN /\ stop
            /\ Move(t, [t EXCEPT !.pc = "w_fin"])
       ELSE /\ \E raised \in BOOLEAN :
                  Move(t, [t EXCEPT !.pc = "w_fin", !.raised = raised,
                                    !.exc = raised /\ notify("exception")])
            /\ UNCHANGED << kill, wkill >>
    /\ UNCHANGED << ctorVars, respVars, locked, wlocked, loopVars >>

\* (mutant) wake() without its `finally: self.locked = False`
Wake_finally_NoRelease(t) ==
    /\ t.pc = "w_fin"
    /\ IF t.exc THEN Exit(t) ELSE Move(t, [t EXCEPT !.pc = "ret"])
    /\ UNCHANGED << ctorVars, respVars, flagVars, loopVars >>

\* (mutant) the release at the end of the try body instead of in `finally`
Wake_finally_NotOnRaise(t) ==
    /\ t.pc = "w_fin"
    /\ locked' = IF t.exc THEN locked ELSE FALSE
    /\ IF t.exc THEN Exit(t) ELSE Move(t, [t EXCEPT !.pc = "ret"])
    /\ UNCHANGED << ctorVars, respVars, kill, wlocked, wkill, loopVars >>

\* lines 303-304: `finally: self.locked = False`; a pending exception then leaves
\* wake() and __call__, and the thread dies with lines 101-102 not run
Wake_finally(t) ==
    /\ t.pc = "w_fin"
    /\ locked' = FALSE
    /\ IF t.exc THEN Exit(t) ELSE Move(t, [t EXCEPT !.pc = "ret"])
    /\ UNCHANGED << ctorVars, respVars, kill, wlocked, wkill, loopVars >>

ThreadStep(t) ==
    \/ Listener_l71(t)
    \/ Listener_cpA(t)
    \/ Listener_l78(t)
    \/ Listener_record(t)
    \/ Listener_cpB(t)
    \/ Listener_cpC(t)
    \/ Listener_transcribe(t)
    \/ Listener_scan(t)
    \/ Listener_reset(t)
    \/ Wake_l292(t)
    \/ Wake_l293(t)
    \/ Wake_l295(t)
    \/ Wake_callback(t)
    \/ Wake_finally(t)

\* ------------------------------------------------------------------ start
\* the positions inside the try block of start() (235-246)
LoopLines == {"l236", "l238", "l241", "l242", "l243"}
Running == lpc # "idle"

\* (mutant) start() that begins by clearing a kill flag left from before
Start_ClearsKill ==
    /\ cpc = "ready"
    /\ lpc = "idle"
    /\ lpc' = IF Workers = {} THEN "l236" ELSE "l238"
    /\ li' = 1
    /\ launched' = FALSE
    /\ lateLaunch' = 0
    /\ slept' = 0
    /\ kill' = FALSE
    /\ UNCHANGED << ctorVars, respVars, locked, wlocked, wkill, clockVars, threads >>

\* start() is called (231-237); over an empty pool the for loop has no turn and
\* `while True` spins at line 236, where nothing tests kill
Start ==
    /\ cpc = "ready"
    /\ lpc = "idle"
    /\ lpc' = IF Workers = {} THEN "l236" ELSE "l238"
    /\ li' = 1
    /\ launched' = FALSE
    /\ lateLaunch' = 0
    /\ slept' = 0
    /\ UNCHANGED << ctorVars, respVars, flagVars, clockVars, threads >>

\* (mutant) the loop without its kill test
Start_l238_NoKillTest ==
    /\ lpc = "l238"
    /\ lpc' = "l241"
    /\ UNCHANGED << ctorVars, respVars, flagVars, li, launched, lateLaunch, slept, clockVars, threads >>

\* (mutant) the loop also returns when it finds SystemLock held
Start_l238_ReturnsOnLock ==
    /\ lpc = "l238"
    /\ IF kill \/ locked
       THEN kill' = FALSE /\ lpc' = "idle" /\ lateLaunch' = 0
       ELSE lpc' = "l241" /\ UNCHANGED << kill, lateLaunch >>
    /\ UNCHANGED << ctorVars, respVars, locked, wlocked, wkill, li, launched, slept, clockVars, threads >>

\* (mutant) on its return the loop also clears the kill flags of the listeners
Start_l238_ResetsListeners ==
    /\ lpc = "l238"
    /\ IF kill
       THEN kill' = FALSE /\ wkill' = AllFalse /\ lpc' = "idle" /\ lateLaunch' = 0
       ELSE lpc' = "l241" /\ UNCHANGED << kill, wkill, lateLaunch >>
    /\ UNCHANGED << ctorVars, respVars, locked, wlocked, li, launched, slept, clockVars, threads >>

\* lines 238-240: `if self.kill: self.kill = False; return`
Start_l238 ==
    /\ lpc = "l238"
    /\ IF kill
       THEN kill' = FALSE /\ lpc' = "idle" /\ lateLaunch' = 0
       ELSE lpc' = "l241" /\ UNCHANGED << kill, lateLaunch >>
    /\ UNCHANGED << ctorVars, respVars, locked, wlocked, wkill, li, launched, slept, clockVars, threads >>

\* (mutant) the sleep inside `if not self.locked`: a slot that launches no worker
\* goes on to the next slot at once
Start_l241_SleepOnLaunch ==
    /\ lpc = "l241"
    /\ lpc' = IF locked THEN "l238" ELSE "l242"
    /\ li' = IF ~locked THEN li ELSE IF li = arg_count THEN 1 ELSE li + 1
    /\ launched' = FALSE
    /\ UNCHANGED << ctorVars, respVars, flagVars, lateLaunch, slept, clockVars, threads >>

\* (mutant) the loop without its test of the lock: it launches in every slot
Start_l241_NoTest ==
    /\ lpc = "l241"
    /\ lpc' = "l242"
    /\ launched' = FALSE
    /\ UNCHANGED << ctorVars, respVars, flagVars, li, lateLaunch, slept, clockVars, threads >>

\* line 241: `if not self.locked`
Start_l241 ==
    /\ lpc = "l241"
    /\ lpc' = IF locked THEN "l243" ELSE "l242"
    /\ launched' = FALSE
    /\ UNCHANGED << ctorVars, respVars, flagVars, li, lateLaunch, slept, clockVars, threads >>

\* line 242: threading.Thread(target=listener).start()
Start_l242 ==
    /\ lpc = "l242"
    /\ BagCardinality(threads) < MaxThreads
    /\ threads' = threads (+) SetToBag({Thread(li, "l71")})
    /\ launched' = TRUE
    /\ lateLaunch' = IF kill /\ lateLaunch < 2 THEN lateLaunch + 1 ELSE lateLaunch
    /\ lpc' = "l243"
    /\ UNCHANGED << ctorVars, respVars, flagVars, li, slept, clockVars >>

\* (mutant) a slot that launched nothing is tried again before the loop goes on
Start_l243_RetriesSlot ==
    /\ lpc = "l243"
    /\ slept' = (IF li = 1 THEN 0 ELSE slept) + Stagger
    /\ li' = IF ~launched THEN li ELSE IF li = arg_count THEN 1 ELSE li + 1
    /\ lpc' = "l238"
    /\ launched' = FALSE
    /\ waited' = 0
    /\ UNCHANGED << ctorVars, respVars, flagVars, lateLaunch, gap, proc_time, threads >>

\* lines 243-246: the stagger sleep ends; the next listener, or the next pass
Start_l243 ==
    /\ lpc = "l243"
    /\ slept' = (IF li = 1 THEN 0 ELSE slept) + Stagger
    /\ li' = IF li = arg_count THEN 1 ELSE li + 1
    /\ lpc' = "l238"
    /\ launched' = FALSE
    /\ waited' = 0
    /\ UNCHANGED << ctorVars, respVars, flagVars, lateLaunch, gap, proc_time, threads >>

\* line 247: a KeyboardInterrupt in the main thread, inside the try of line 235,
\* is caught
Interrupt ==
    /\ lpc \in LoopLines
    /\ lpc' = "l248"
    /\ launched' = FALSE
    /\ lateLaunch' = 0
    /\ UNCHANGED << ctorVars, respVars, flagVars, li, slept, clockVars, threads >>

\* (mutant) a handler that raises the interrupt again
Start_l248_Reraises ==
    /\ lpc = "l248"
    /\ lpc' = "raised"
    /\ UNCHANGED << ctorVars, respVars, flagVars, li, launched, lateLaunch, slept, clockVars, threads >>

\* line 248: the handler calls notify("Stopping.", "verbose") and start() ends:
\* it returns, unless notify raised
Start_l248 ==
    /\ lpc = "l248"
    /\ lpc' = IF notify("verbose") THEN "raised" ELSE "idle"
    /\ UNCHANGED << ctorVars, respVars, flagVars, li, launched, lateLaunch, slept, clockVars, threads >>

\* (mutant) stop() that also releases SystemLock
StopCall_ReleasesLock ==
    /\ cpc = "ready"
    /\ stop
    /\ locked' = FALSE
    /\ UNCHANGED << ctorVars, respVars, wlocked, loopVars, threads >>

\* stop() called from outside the pool (260-268)
StopCall ==
    /\ cpc = "ready"
    /\ stop
    /\ UNCHANGED << ctorVars, respVars, locked, wlocked, loopVars, threads >>

LoopStep == Start_l238 \/ Start_l241 \/ Start_l242 \/ Start_l243 \/ Start_l248
Threads == \E t \in Live : ThreadStep(t)

Next ==
    \/ Start
    \/ Start_l238
    \/ Start_l241
    \/ Start_l242
    \/ Start_l243
    \/ Interrupt
    \/ Start_l248
    \/ StopCall
    \/ \E t \in Live : Listener_l71(t)
    \/ \E t \in Live : Listener_cpA(t)
    \/ \E t \in Live : Listener_l78(t)
    \/ \E t \in Live : Listener_record(t)
    \/ \E t \in Live : Listener_cpB(t)
    \/ \E t \in Live : Listener_cpC(t)
    \/ \E t \in Live : Listener_transcribe(t)
    \/ \E t \in Live : Listener_scan(t)
    \/ \E t \in Live : Listener_reset(t)
    \/ \E t \in Live : Wake_l292(t)
    \/ \E t \in Live : Wake_l293(t)
    \/ \E t \in Live : Wake_l295(t)
    \/ \E t \in Live : Wake_callback(t)
    \/ \E t \in Live : Wake_finally(t)

Spec == Init /\ [][Next]_vars

\* ------------------------------------------------------------ construction
\* SpychWake.__init__ run step by step on every small pair of arguments
ArgWords == {w_s, w_S, w_t, w_T, w_x}
ArgItems == [k : ArgWords, v : {"cbA", "cbB"}]
\* a dict argument: its keys are distinct as written (case-sensitive); not empty
ArgMaps ==
    {m \in SeqsUpTo(ArgItems, MaxMapLen) :
        /\ m # <<>>
        /\ \A i, j \in DOMAIN m : i # j => m[i].k # m[j].k}
ArgTermLists == SeqsUpTo(ArgWords, MaxTerms)
\* the wake_listener_count argument: any int is accepted by the signature (113)
ArgCounts == -1..wake_listener_count

CtorInit ==
    /\ cpc = "new"
    /\ arg_map \in ArgMaps
    /\ arg_terms \in ArgTermLists
    /\ arg_count \in ArgCounts
    /\ faulty = FALSE
    /\ ti = 0
    /\ wake_word_map = <<>>
    /\ terminate_words = <<>>
    /\ Constructed

\* lines 194-196
Init_l194 ==
    /\ cpc = "new"
    /\ wake_word_map' = LowerKeys(arg_map)
    /\ terminate_words' = LowerTerms(arg_terms)
    /\ ti' = 1
    /\ cpc' = "terms"
    /\ UNCHANGED << respVars, arg_map, arg_terms, arg_count, faulty, flagVars, loopVars, threads >>

\* lines 197-200: one turn of the for loop
Init_l197 ==
    /\ cpc = "terms"
    /\ ti <= Len(terminate_words)
    /\ LET r == TermStep(wake_word_map, terminate_words[ti])
       IN IF r.raises
          THEN cpc' = "error" /\ UNCHANGED << wake_word_map, ti >>
          ELSE wake_word_map' = r.map /\ ti' = ti + 1 /\ UNCHANGED cpc
    /\ UNCHANGED << respVars, arg_map, arg_terms, arg_count, faulty, terminate_words, flagVars, loopVars,
                    threads >>

\* lines 201-214: the loop is over; wake_listener_count is stored as given and the
\* flags and the pool are set up; nothing here raises
Init_l201 ==
    /\ cpc = "terms"
    /\ ti > Len(terminate_words)
    /\ cpc' = "ready"
    /\ UNCHANGED << respVars, arg_map, arg_terms, arg_count, faulty, ti, wake_word_map, terminate_words,
                    flagVars, loopVars, threads >>

CtorNext == Init_l194 \/ Init_l197 \/ Init_l201
CtorSpec == CtorInit /\ [][CtorNext]_vars

\* ---------------------------------------------------------------- matching
\* One cycle from the return of transcribe() on, for every small configuration that
\* __init__ accepts and every short list of short segments; stop() may be called
\* from outside at any time.
ScanTexts == SeqsUpTo(ArgWords \ {w_s, w_T}, MaxTextLen)
ScanTextOf(q) == [i \in DOMAIN q |-> q[i][1]]
ScanSegLists == SeqsUpTo({ScanTextOf(q) : q \in ScanTexts}, MaxScanSegs)

ScanInit ==
    /\ ResponderNew(default_history_length)
    /\ cpc = "ready"
    /\ arg_map \in ArgMaps
    /\ arg_terms \in ArgTermLists
    /\ ~Construct(arg_map, arg_terms).raises
    /\ arg_count = 1
    /\ faulty = FALSE
    /\ ti = Len(arg_terms) + 1
    /\ wake_word_map = Construct(arg_map, arg_terms).map
    /\ terminate_words = LowerTerms(arg_terms)
    /\ locked = FALSE
    /\ kill = FALSE
    /\ wlocked = AllTrue
    /\ wkill = AllFalse
    /\ lpc = "idle"
    /\ li = 1
    /\ launched = FALSE
    /\ lateLaunch = 0
    /\ slept = 0
    /\ waited = 0
    /\ gap = 0
    /\ proc_time = 0
    /\ \E segs \in ScanSegLists :
           threads = SetToBag({[Thread(1, "scan") EXCEPT !.heard = segs, !.segs = segs]})

ScanNext ==
    \/ StopCall
    \/ \E t \in Live : Listener_scan(t)
    \/ \E t \in Live : Listener_reset(t)
    \/ \E t \in Live : Wake_l292(t)
    \/ \E t \in Live : Wake_l293(t)
    \/ \E t \in Live : Wake_l295(t)
    \/ \E t \in Live : Wake_callback(t)
    \/ \E t \in Live : Wake_finally(t)

ScanSpec == ScanInit /\ [][ScanNext]_vars

\* ------------------------------------------------------------------- time
\* The running system on a clock, with no wake word heard and no stop(). A
\* statement takes no time; sleep() lasts its argument, record() its duration
\* (utils.py 44 reads int(16000 * duration / 512) frames of 512 samples, which is
\* duration less at most one frame), a transcription between 0 and proc_time.
\* Time passes (Tick) only when the loop and every thread are inside such a call.
RecordTicks == Ticks(wake_listener_time)
Adv(t) == IF t.pc \in {"rec", "trans"} THEN [t EXCEPT !.el = t.el + 1] ELSE t

TimedInit ==
    /\ ResponderNew(default_history_length)
    /\ cpc = "ready"
    /\ arg_map = ConfigMap
    /\ arg_terms = ConfigTerms
    /\ arg_count \in 1..wake_listener_count
    /\ faulty = FALSE
    /\ ti = Len(ConfigTerms) + 1
    /\ wake_word_map = Construct(ConfigMap, ConfigTerms).map
    /\ terminate_words = LowerTerms(ConfigTerms)
    /\ locked = FALSE
    /\ kill = FALSE
    /\ wlocked = AllFalse
    /\ wkill = AllFalse
    /\ lpc = "idle"
    /\ li = 1
    /\ launched = FALSE
    /\ lateLaunch = 0
    /\ slept = 0
    /\ waited = 0
    /\ gap = 0
    /\ proc_time \in 0..Ticks(wake_listener_max_processing_time)
    /\ threads = EmptyBag

\* one tick passes
Tick ==
    /\ lpc = "l243"
    /\ waited < Stagger
    /\ \A t \in Live : \/ t.pc = "rec" /\ t.el < RecordTicks
                       \/ t.pc = "trans" /\ t.el < proc_time
    /\ waited' = waited + 1
    /\ gap' = IF At("rec") # {} THEN 0 ELSE IF gap > PassTime THEN gap ELSE gap + 1
    /\ threads' = [n \in {Adv(t) : t \in Live} |->
                      threads[CHOOSE t \in Live : Adv(t) = n]]
    /\ UNCHANGED << ctorVars, respVars, flagVars, lpc, li, launched, lateLaunch, slept, proc_time >>

\* lines 243-246: time.sleep() returns when its argument has passed
Timed_l243 == waited = Stagger /\ Start_l243
\* lines 79-82: record() returns after `duration`
Timed_record(t) == t.el = RecordTicks /\ Listener_record(t)
\* lines 88-93: transcribe() returns, with segments that contain no wake word
Timed_transcribe(t) ==
    /\ Listener_transcribe(t)
    /\ \A n \in BagToSet(threads') : \A i \in DOMAIN n.heard : KeysIn(n.heard[i]) = {}

TimedNext ==
    \/ Start
    \/ Start_l238
    \/ Start_l241
    \/ Start_l242
    \/ Timed_l243
    \/ Tick
    \/ \E t \in Live : Listener_l71(t)
    \/ \E t \in Live : Listener_cpA(t)
    \/ \E t \in Live : Listener_l78(t)
    \/ \E t \in Live : Timed_record(t)
    \/ \E t \in Live : Listener_cpB(t)
    \/ \E t \in Live : Listener_cpC(t)
    \/ \E t \in Live : Timed_transcribe(t)
    \/ \E t \in Live : Listener_scan(t)
    \/ \E t \in Live : Listener_reset(t)

TimedSpec == TimedInit /\ [][TimedNext]_vars

\* ------------------------------------------------------------------ faults
\* the running system with a recorder and a whisper model that can raise
FaultInit ==
    /\ cpc = "ready"
    /\ arg_map = ConfigMap
    /\ arg_terms = ConfigTerms
    /\ arg_count = wake_listener_count
    /\ faulty = TRUE
    /\ ti = Len(ConfigTerms) + 1
    /\ wake_word_map = Construct(ConfigMap, ConfigTerms).map
    /\ terminate_words = LowerTerms(ConfigTerms)
    /\ Constructed
FaultSpec == FaultInit /\ [][Next]_vars

\* ------------------------------------------------------------------- stop
\* the running system with no KeyboardInterrupt: start() ends through stop() only,
\* so that start() not running (lpc = "idle") after threads were launched means that
\* it returned because of stop()
StopNext ==
    \/ Start
    \/ Start_l238
    \/ Start_l241
    \/ Start_l242
    \/ Start_l243
    \/ StopCall
    \/ \E t \in Live : Listener_l71(t)
    \/ \E t \in Live : Listener_cpA(t)
    \/ \E t \in Live : Listener_l78(t)
    \/ \E t \in Live : Listener_record(t)
    \/ \E t \in Live : Listener_cpB(t)
    \/ \E t \in Live : Listener_cpC(t)
    \/ \E t \in Live : Listener_transcribe(t)
    \/ \E t \in Live : Listener_scan(t)
    \/ \E t \in Live : Listener_reset(t)
    \/ \E t \in Live : Wake_l292(t)
    \/ \E t \in Live : Wake_l293(t)
    \/ \E t \in Live : Wake_l295(t)
    \/ \E t \in Live : Wake_callback(t)
    \/ \E t \in Live : Wake_finally(t)

StopSpec == Init /\ [][StopNext]_vars

\* --------------------------------------------------------------- responder
\* OllamaResponder (responders.py 150-242) alone: respond() called again and again
\* on one responder, for every small history_length, with an Ollama server that
\* answers or (faulty) a request that raises.
UserInputs == {"hi", "go"}
Replies == {"ok", ""}
Entry(role, content) == [role |-> role, content |-> content]

\* Python's seq[start:] : a negative start counts from the end, and both are clamped
SliceFrom(seq, start) ==
    LET n == Len(seq)
        from == IF start < 0 THEN (IF n + start < 0 THEN 0 ELSE n + start)
                ELSE (IF start > n THEN n ELSE start)
    IN SubSeq(seq, from + 1, n)

RespondInit ==
    /\ cpc = "ready"
    /\ arg_map = ConfigMap
    /\ arg_terms = ConfigTerms
    /\ arg_count = wake_listener_count
    /\ faulty \in BOOLEAN
    /\ ti = Len(ConfigTerms) + 1
    /\ wake_word_map = Construct(ConfigMap, ConfigTerms).map
    /\ terminate_words = LowerTerms(ConfigTerms)
    /\ locked = FALSE
    /\ kill = FALSE
    /\ wlocked = AllFalse
    /\ wkill = AllFalse
    /\ lpc = "idle"
    /\ li = 1
    /\ launched = FALSE
    /\ lateLaunch = 0
    /\ slept = 0
    /\ waited = 0
    /\ gap = 0
    /\ proc_time = 0
    /\ threads = EmptyBag
    /\ \E n \in 0..MaxHistoryLength : ResponderNew(n)

\* respond() (225-242): the user entry is appended, the request is answered, the
\* assistant entry is appended and history becomes history[-history_length * 2:]
Respond ==
    /\ Len(said) + 2 <= MaxSaid
    /\ \E user_input \in UserInputs, response \in Replies :
          LET asked == Entry("user", user_input)
              answered == Entry("assistant", response)
          IN /\ history' = SliceFrom(Append(Append(history, asked), answered),
                                     -(history_length * 2))
             /\ said' = Append(Append(said, asked), answered)
    /\ UNCHANGED << ctorVars, flagVars, loopVars, threads, history_length >>

\* respond() when requests.post or output.json() raises (235-239): the user entry
\* is in history already (225) and lines 240-241 are not reached
Respond_raises ==
    /\ faulty
    /\ Len(said) + 1 <= MaxSaid
    /\ \E user_input \in UserInputs :
          /\ history' = Append(history, Entry("user", user_input))
          /\ said' = Append(said, Entry("user", user_input))
    /\ UNCHANGED << ctorVars, flagVars, loopVars, threads, history_length >>

RespondNext == Respond \/ Respond_raises
RespondSpec == RespondInit /\ [][RespondNext]_vars

\* -------------------------------------------------------------- fairness
\* The main thread keeps running the loop of start() (its sleep returns), and the
\* scheduler keeps running the listener threads, whose calls and callbacks return.
\* A thread that is inside the terminate handler is scheduled too: stop() returns.
StopReturns ==
    \E t \in At("cb") : DictGet(wake_word_map, t.word) = "stop" /\ Wake_callback(t)
FairSpec == Spec /\ WF_vars(LoopStep) /\ WF_vars(Threads) /\ WF_vars(StopReturns)

\* ---------------------------------------------------------------- claims
\* thread o took this step: it moved to another position, or it ended
Moved(o) == \E n \in BagToSet(threads') : n # o /\ Move(o, n)
Stepped(o) == Moved(o) \/ Exit(o)
IsTerminate(word) == \E i \in DOMAIN terminate_words : terminate_words[i] = word
\* worker w is locked and no invocation of it is left that could unlock it
Orphaned(w) == wlocked[w] /\ \A t \in Live : t.w = w => t.pc = "l71"

\* C1: in every reachable state at most one callback body from wake_word_map is
\* executing, however the steps of concurrent wake() calls interleave.
C1_MutualExclusion == CountAt("cb") <= 1

\* C2: a wake() call that reads SystemLock as held at line 293 returns at once: it
\* invokes no callback, the lock stays held, and the call goes back to the listener,
\* which only ends its cycle (nothing is queued, no callback runs later for it).
C2_DroppedCallIsNoOp ==
    [][ /\ \A o \in At("w_test") : (locked /\ Stepped(o)) =>
              /\ Move(o, [o EXCEPT !.pc = "ret", !.saw = TRUE])
              /\ locked'
              /\ CountAt("cb")' = CountAt("cb")
        /\ \A o \in At("ret") : (o.saw /\ Stepped(o)) =>
              /\ Exit(o)
              /\ CountAt("cb")' = CountAt("cb") ]_vars

\* C2 witness: a dropped call has returned to its listener while the lock is held
C2_Witness == \E t \in At("ret") : t.saw /\ ~t.ran /\ locked

\* C3 as stated: of two workers that call wake() with the same word, exactly one
\* invokes the callback.
C3_ExactlyOneInvocation ==
    \A a, b \in Live : (a.w # b.w /\ a.word = b.word /\ a.ran) => ~b.ran

\* C3 amended: of two workers that call wake() with the same word, a call is a no-op
\* exactly when it read SystemLock as held; a call that read it as free (never set,
\* or already released by the other call) invokes the callback, once.
C3_NoOpIffLockHeld ==
    \A a, b \in Live :
        (a.w # b.w /\ a.word = b.word /\ a.pc \in {"cb", "w_fin", "ret"}
            /\ b.pc \in {"cb", "w_fin", "ret"})
        => (b.ran <=> ~b.saw)

\* C3 witness: one call ran the callback, the other was dropped
C3_Witness ==
    \E a, b \in Live :
        /\ a.w # b.w /\ a.word = b.word
        /\ a.pc = "cb" /\ b.pc = "ret" /\ b.saw /\ ~b.ran

\* C4: a wake() call that acquired SystemLock leaves the callback only through the
\* finally block, and when the call ends (by return or by a raise) locked is false.
C4_LockReleasedOnExit ==
    [][ /\ \A o \in At("cb") : Stepped(o) => \E n \in At("w_fin")' : Move(o, n)
        /\ \A o \in At("w_fin") : Stepped(o) => ~locked' ]_vars

\* C4 witness: a call whose callback raised has ended and the lock is free
C4_Witness == ~locked /\ \E w \in Workers : Orphaned(w)

\* C5 as stated: when the callback raises, wake() returns normally, no exception
\* pending for its caller.
C5_NoRethrow == \A t \in At("w_fin") : t.raised => ~t.exc

\* C5 amended: when the callback raises, wake() catches it and reports it with
\* notify(notification_type="exception"), which raises: after the finally block a
\* new exception leaves wake() for the listener; when it returns, none does.
C5_Reraised == \A t \in At("w_fin") : t.exc <=> t.raised

\* C5 witness: the callback raised and wake() is in its finally block
C5_Witness == \E t \in At("w_fin") : t.raised /\ t.exc

\* C6: whatever callbacks have raised, detection is not disabled: some worker can
\* still run a cycle (not every worker is left locked with no cycle in progress).
C6_DetectionSurvives == ~(\A w \in Workers : Orphaned(w))

\* C7: after a callback has returned (or raised), SystemLock becomes false and the
\* loop of start() launches a worker again, unless start() has ended (stop()).
CallbackOver == \E t \in At("w_fin") : TRUE
C7_LoopResumes ==
    /\ CallbackOver ~> ~locked
    /\ CallbackOver ~> (lpc = "idle" \/ (lpc = "l243" /\ launched))

\* C7 witness: a callback is over while start() is running and the lock is held
C7_Witness == CallbackOver /\ locked /\ lpc = "l241"

\* C8 as stated: the loop launches no worker after stop() was called.
C8_NoLaunchAfterStop == lateLaunch = 0

\* C8 amended: after stop() the loop of start() returns at its next kill test, so
\* it launches at most one worker after the stop() call (the one whose kill test
\* came before the call).
C8_AtMostOneLaunchAfterStop == lateLaunch <= 1

\* C8 witness: a worker was launched after stop() set kill
C8_Witness == lateLaunch = 1 /\ kill /\ lpc = "l243"

StopRunning == \E t \in At("cb") : DictGet(wake_word_map, t.word) = "stop"
Overlap ==
    \E i \in DOMAIN arg_terms, j \in DOMAIN arg_map :
        Lower(arg_terms[i]) = Lower(arg_map[j].k)
C10_RaisesIffOverlap ==
    /\ cpc = "error" => Overlap
    /\ cpc = "ready" => ~Overlap

\* C11: construction with a wake_listener_count below 1 fails: no SpychWake with
\* an empty pool of listeners is ever constructed (so start() cannot loop over one).
C11_InvalidCountRejected == cpc = "ready" => arg_count >= 1

\* the positions of __call__ after line 78 set self.locked: recording, transcribing,
\* matching (wake() included) and the reset that ends the cycle
InCycle ==
    {"rec", "cpB", "cpC", "trans", "scan", "w_stop", "w_test", "w_set", "cb", "w_fin",
     "ret", "end"}
\* the number of invocations of worker w that are inside their cycle
Cycling(w) ==
    BagCardinality([t \in {u \in Live : u.w = w /\ u.pc \in InCycle} |-> threads[t]])

\* C12: a worker never overlaps itself: at every instant at most one invocation of
\* a worker is between setting the worker's locked flag (line 78) and the end of
\* its cycle.
C12_NoSelfOverlap == \A w \in Workers : Cycling(w) <= 1

\* C13: an invocation that is at checkpoint A (line 76) while its kill flag is set
\* or SystemLock is held clears kill, clears the worker's locked flag and returns:
\* the thread ends there, it neither sets locked (78) nor calls record() (79).
C13_CheckpointAStops ==
    [][ \A o \in At("cpA") : (Stepped(o) /\ (wkill[o.w] \/ locked)) =>
            /\ Exit(o)
            /\ ~wkill'[o.w]
            /\ ~wlocked'[o.w] ]_vars

\* C13 witness: an invocation of a worker that is not locked is at checkpoint A
\* while SystemLock is held and the worker's kill flag is not set
C13_Witness == \E t \in At("cpA") : ~wlocked[t.w] /\ locked /\ ~wkill[t.w]

\* the segments of t.heard that the for loop of t has taken
Taken(t) == Len(t.heard) - Len(t.segs)

\* C14: in one cycle wake() is called at most once, and when it is called, the
\* segment the loop is at is the first one (in transcription order) that contains
\* any wake word, the argument is the first key of wake_word_map (in key order)
\* that this segment contains, and no later segment is taken after the call.
C14_FirstMatchWins ==
    \A t \in Live :
        /\ t.pc \in {"scan", "end"} => t.word = NoWord
        /\ t.word # NoWord =>
              /\ t.pc \in {"w_stop", "w_test", "w_set", "cb", "w_fin", "ret"}
              /\ Taken(t) >= 1
              /\ \A i \in 1..(Taken(t) - 1) : KeysIn(t.heard[i]) = {}
              /\ \E j \in KeysIn(t.heard[Taken(t)]) :
                    /\ t.word = wake_word_map[j].k
                    /\ \A h \in KeysIn(t.heard[Taken(t)]) : j <= h

\* C14 witness: wake() has returned from a call made for the first of two segments
\* that both contain a wake word, the first one containing two of them
C14_Witness ==
    \E t \in At("ret") :
        /\ Len(t.heard) = 2 /\ Len(t.segs) = 1
        /\ Cardinality(KeysIn(t.heard[1])) = 2
        /\ KeysIn(t.heard[2]) # {}

C17_StaggerPerSlot ==
    (lpc \in {"l238", "l241", "l242", "l243"}) =>
        IF li = 1 THEN slept \in {0, PassTime}
        ELSE slept * arg_count = (li - 1) * PassTime

\* C17 witness: start() sleeps after the last slot of a pass, a slot in which it
\* found the lock held and launched nothing
C17_Witness == lpc = "l243" /\ li = arg_count /\ ~launched /\ locked

\* C19: a cycle that a failing record() or transcribe() call aborts ends with its
\* worker's locked and kill flags reset (so that the worker's next launch records
\* again).
C19_FailedCycleResets ==
    [][ \A o \in At("rec") \cup At("trans") :
            Exit(o) => ~wlocked'[o.w] /\ ~wkill'[o.w] ]_vars

\* C20: a KeyboardInterrupt delivered while start() is in its loop is caught, and
\* start() then returns: it never ends by raising an exception to its caller.
C20_InterruptReturns ==
    [][ /\ (lpc \in LoopLines /\ lpc' \notin LoopLines) =>
              lpc' = "l248" \/ (lpc = "l238" /\ kill /\ lpc' = "idle")
        /\ (lpc = "l248" /\ lpc' # "l248") => lpc' = "idle"
        /\ lpc' # "raised" ]_vars

\* C20 witness: the interrupt came in the second slot of the loop, a listener
\* thread is running, and the handler of line 248 is being executed
C20_Witness == lpc = "l248" /\ li = 2 /\ threads # EmptyBag

\* C18 as stated: with transcriptions that take at most P, once start() has
\* launched its first worker no stretch of time without a recording listener is
\* longer than the stagger interval (T + P) / N.
C18_NoGapBeyondStagger == gap * arg_count <= PassTime

\* C18 amended: the same, when every transcription takes less than P.
C18_NoGapWhenInTime ==
    proc_time < Ticks(wake_listener_max_processing_time) => gap * arg_count <= PassTime

\* C18 witness: no listener is recording, the sleep of start() is over and the
\* next launch is due, and the transcriptions of this run take less than P
C18_Witness ==
    /\ proc_time < Ticks(wake_listener_max_processing_time)
    /\ gap > 0
    /\ lpc = "l243" /\ waited = Stagger

\* word is a wake word the caller supplied (a key of the wake_word_map argument,
\* lower-cased), and cb a callback the caller bound to it
IsUserWord(word) == \E j \in DOMAIN arg_map : Lower(arg_map[j].k) = word
UserBound(word, cb) ==
    \E j \in DOMAIN arg_map : Lower(arg_map[j].k) = word /\ arg_map[j].v = cb

\* C15: a wake(word) call that acquired SystemLock invokes the callback bound to
\* word: for a wake word of the caller a callback the caller bound to it, never
\* stop; for a terminate word stop, never a caller's callback.
C15_BoundCallback ==
    \A t \in Live : t.ran =>
        /\ IsUserWord(t.word) \/ IsTerminate(t.word)
        /\ IsUserWord(t.word) => t.cb # "stop" /\ UserBound(t.word, t.cb)
        /\ IsTerminate(t.word) => t.cb = "stop" /\ ~UserBound(t.word, t.cb)

\* C15 witness: the second callback of the caller is running, in a configuration
\* that has another wake word of the caller and a terminate word
C15_Witness ==
    \E t \in At("cb") :
        /\ t.cb = "cbB" /\ UserBound(t.word, "cbB")
        /\ \E j \in DOMAIN wake_word_map : wake_word_map[j].v = "cbA"
        /\ terminate_words # <<>>

\* this step is a call of SpychWake.stop(): from outside the pool (no thread moves),
\* or as the terminate handler a wake() call is inside
StopStep ==
    \/ threads' = threads
    \/ \E o \in At("cb") : o.cb = "stop" /\ Stepped(o)

\* C21 as stated: start() returns only after a stop() call: SpychWake.kill is set by
\* stop() alone, and every return of start() is the one of line 240, taken with
\* kill set.
C21_StoppedOnlyViaStop ==
    [][ /\ (~kill /\ kill') => StopStep
        /\ (lpc # "idle" /\ lpc' = "idle") => (lpc = "l238" /\ kill) ]_vars

\* C21 amended: start() returns only at line 240, after a stop() call set kill, or
\* from the handler of a KeyboardInterrupt (247-248), for which no stop() is needed.
C21_StoppedViaStopOrInterrupt ==
    [][ /\ (~kill /\ kill') => StopStep
        /\ (lpc # "idle" /\ lpc' = "idle") => (lpc = "l238" /\ kill) \/ lpc = "l248" ]_vars

\* C21 witness: the terminate handler ran stop(), the loop met kill at line 238,
\* cleared it and start() returned, while the handler's wake() call is not over yet
C21_Witness == lpc = "idle" /\ ~kill /\ \E t \in At("w_fin") : t.cb = "stop"

\* C22: stop() is idempotent. A stop() call from outside (the only step that leaves
\* the loop and every thread where they are) ends with the Coordinator's kill flag
\* and every worker's kill flag set and nothing else changed, whatever the flags
\* were before: a second call in succession changes nothing. And start() meets any
\* number of calls as it meets one: at its next kill test it clears kill and returns.
C22_StopIdempotent ==
    [][ /\ (threads' = threads /\ UNCHANGED loopVars) =>
              /\ kill' /\ wkill' = AllTrue /\ UNCHANGED << locked, wlocked >>
              /\ (kill /\ wkill = AllTrue) => UNCHANGED vars
        /\ (lpc = "l238" /\ kill /\ lpc' \notin {"l238", "l248"}) =>
              lpc' = "idle" /\ ~kill' ]_vars

\* C22 witness: stop() has been called while listeners run, the loop has not tested
\* kill yet, and stop() can be called again
C22_Witness ==
    /\ kill /\ wkill = AllTrue
    /\ lpc = "l241"
    /\ BagCardinality(threads) = 2

\* C23: a cycle that ends after its wake() call (whatever the callback did, a raise
\* included), or after the scan of all segments found no match, ends with its
\* worker's locked and kill flags both false.
C23_CycleEndResets ==
    [][ \A o \in At("w_fin") \cup At("ret") \cup At("end") :
            Exit(o) => ~wlocked'[o.w] /\ ~wkill'[o.w] ]_vars

\* the invocations that are at a checkpoint later than A: line 83 (after record()),
\* line 86 (before transcribe()), line 95 (after it, at each segment of the scan)
AtLaterCheckpoint == At("cpB") \cup At("cpC") \cup {t \in At("scan") : t.segs # <<>>}

\* C24: an invocation that is at a checkpoint after capture or after transcription
\* while its kill flag is set or SystemLock is held ends there as it would at
\* checkpoint A, with the worker's kill and locked flags cleared, and wake() is not
\* called in that cycle (not before the checkpoint, and the thread is over after it).
C24_LaterCheckpointsStop ==
    [][ \A o \in AtLaterCheckpoint : (Stepped(o) /\ (wkill[o.w] \/ locked)) =>
            /\ Exit(o)
            /\ ~wkill'[o.w]
            /\ ~wlocked'[o.w]
            /\ o.word = NoWord /\ ~o.ran ]_vars

\* C24 witness: one invocation is at the checkpoint of line 83 and another at the
\* one of line 95 with a segment to scan, both with their kill flag set, SystemLock
\* free
C24_Witness ==
    \E a \in At("cpB"), b \in At("scan") :
        b.segs # <<>> /\ wkill[a.w] /\ wkill[b.w] /\ ~locked

\* C25: every wake() call sets the kill flag of every worker of the pool (292)
\* before it tests SystemLock (293): the call's first step sets them all and leads
\* to the test, the test is reached in no other way, and this is so for the calls
\* that the test then drops as well.
C25_StopListenersFirst ==
    [][ /\ \A o \in At("w_stop") : Stepped(o) =>
              /\ wkill' = AllTrue
              /\ Move(o, [o EXCEPT !.pc = "w_test"])
        /\ \A n \in At("w_test")' : n \in At("w_test") \/ \E o \in At("w_stop") : Move(o, n)
        /\ \A o \in Live : (Stepped(o) /\ \E n \in BagToSet(threads') : Move(o, n) /\ n.saw)
              => o.pc = "w_test" ]_vars

\* C25 witness: a wake() call has set every kill flag and is at the test of line 293
\* with SystemLock held by another call: it will be dropped
C25_Witness ==
    \E t \in At("w_test"), u \in At("cb") : t.w # u.w /\ locked /\ wkill = AllTrue

\* C26: two workers can both pass their last checkpoint (95) before either acquires
\* SystemLock, and then two callbacks are invoked for one pass of the loop. Nothing
\* tests the lock again after line 293: a wake() call that read it as free sets it
\* and invokes its callback whatever the lock has become meanwhile (the state with
\* two callbacks of one pass running is C26_Witness).
C26_NoRetestAfterLockTest ==
    [][ \A o \in At("w_set") : Stepped(o) =>
            /\ ~o.saw
            /\ locked'
            /\ Move(o, [o EXCEPT !.pc = "cb", !.cb = DictGet(wake_word_map, o.word),
                                 !.ran = TRUE]) ]_vars

\* C26 witness: the loop is in the sleep that follows the launch of the second
\* worker, and the invocations of both workers are inside the callback of the word
\* they matched
C26_Witness ==
    /\ lpc = "l243" /\ li = 2 /\ launched
    /\ \E a, b \in At("cb") :
          /\ a.w = 1 /\ b.w = 2
          /\ a.ran /\ b.ran /\ ~a.saw /\ ~b.saw
          /\ a.cb = "cbA" /\ b.cb = "cbA"

\* C27: the word a worker passes to wake() is a key of wake_word_map, at the call
\* and for as long as the call lasts, so the lookup of line 297 finds a callback.
C27_WordIsKey ==
    \A t \in Live : t.word # NoWord =>
        /\ HasKey(wake_word_map, t.word)
        /\ t.ran => \E j \in DOMAIN wake_word_map :
                        wake_word_map[j].k = t.word /\ wake_word_map[j].v = t.cb

\* C27 witness: wake() is entered with the last key of a map of three keys, matched
\* in a segment that is longer than the key
C27_Witness ==
    \E t \in At("w_stop") :
        /\ Len(wake_word_map) = 3
        /\ t.word = wake_word_map[3].k
        /\ Len(t.heard[Taken(t)]) > Len(t.word)

\* the positions of SpychWakeListener.__call__ (wake() and what it calls are
\* Coordinator code, run by the listener's thread)
CyclePositions == {"l71", "cpA", "l78", "rec", "cpB", "cpC", "trans", "scan", "ret", "end"}
\* this step is a step of an invocation of worker w, inside the worker's own code
OwnCycleStep(w) == \E o \in Live : o.w = w /\ o.pc \in CyclePositions /\ Stepped(o)
\* this step is a step of a Coordinator operation that stops the listeners: stop(),
\* or the stop_listeners() call of wake()
CoordinatorStopStep == StopStep \/ \E o \in At("w_stop") : Stepped(o)

\* C28: a worker's kill flag is set to true by Coordinator operations only (stop(),
\* wake() through stop_listeners()) and set to false by the worker's own cycle
\* only; a worker's locked flag is written by the worker's own cycle only.
C28_FlagWriters ==
    [][ \A w \in Workers :
            /\ (~wkill[w] /\ wkill'[w]) => CoordinatorStopStep
            /\ (wkill[w] /\ ~wkill'[w]) => OwnCycleStep(w)
            /\ (wlocked[w] # wlocked'[w]) => OwnCycleStep(w) ]_vars

\* C28 witness: wake(), called by worker 1, has set the kill flag of both workers;
\* worker 2, locked by its own cycle, is at a checkpoint where it will clear both of
\* its flags
C28_Witness ==
    \E t \in At("w_test"), u \in At("cpB") :
        t.w = 1 /\ u.w = 2 /\ wkill = AllTrue /\ wlocked = AllTrue /\ ~kill

\* C29: once construction is over no operation changes wake_word_map or the pool:
\* no step of start(), stop(), wake(), stop_listeners() or a listener's cycle changes
\* the map, the number of listeners, or the set of listeners that carry flags.
C29_MapAndPoolFrozen ==
    [][ cpc = "ready" =>
            /\ wake_word_map' = wake_word_map
            /\ arg_count' = arg_count
            /\ DOMAIN wlocked' = DOMAIN wlocked
            /\ DOMAIN wkill' = DOMAIN wkill ]_vars

\* C29 witness: start(), a listener's cycle, wake() with a callback and stop() have
\* all run: a wake() call is back in its listener, stop() was called and the loop
\* has not met kill yet
C29_Witness ==
    /\ kill /\ lpc = "l243"
    /\ \E t \in At("ret") : t.ran /\ t.cb = "cbA"
    /\ wake_word_map = Construct(arg_map, arg_terms).map
    /\ DOMAIN wkill = Workers /\ DOMAIN wlocked = Workers

\* the slot after slot i in `for listener in self.wake_listeners` under `while True`
NextSlot(i) == IF i = arg_count THEN 1 ELSE i + 1

\* C30: the loop considers the workers in the order of the pool, one slot after the
\* other and in the same order in every pass: a call of start() begins at the first
\* worker, the end of a slot (its sleep) leads to the next worker of the pool, and
\* after the last one to the first; nothing else moves the loop to another worker
\* or begins a slot, and the thread a slot starts is an invocation of its worker.
C30_FixedPoolOrder ==
    [][ /\ (lpc = "idle" /\ lpc' # "idle") => li' = 1
        /\ (lpc = "l243" /\ lpc' = "l238") => li' = NextSlot(li)
        /\ li' # li => (lpc = "idle" \/ lpc = "l243")
        /\ (lpc' = "l238" /\ lpc # "l238") => (lpc = "idle" \/ lpc = "l243")
        /\ BagCardinality(threads') > BagCardinality(threads) =>
              threads' = threads (+) SetToBag({Thread(li, "l71")}) ]_vars

\* C30 witness: the second pass of the loop begins, at the first worker again, while
\* an invocation of the last worker of the pool, started in the first pass, runs
C30_Witness ==
    /\ lpc = "l238" /\ li = 1 /\ slept = PassTime
    /\ \E t \in Live : t.w = arg_count /\ t.pc \in InCycle

\* C31: after every call of OllamaResponder.respond, for every history_length >= 0,
\* history holds at most history_length * 2 entries, and they are the most recent
\* entries of the conversation, in order.
C31_RollingHistory ==
    /\ Len(history) <= history_length * 2
    /\ history = SubSeq(said, Len(said) - Len(history) + 1, Len(said))

\* C32: whenever a callback body of wake_word_map is executing, SystemLock is held:
\* no wake() call releases the lock while the callback another call started runs.
C32_LockedWhileCallback == At("cb") # {} => locked

\* the wake() calls that are between taking SystemLock (295) and the end of their
\* finally block (304)
Holding == At("cb") \cup At("w_fin")

\* C33: SystemLock never leaks: whenever locked is true, some wake() call is between
\* taking the lock and the end of its finally block; with no such call in progress
\* locked is false.
C33_NoLockLeak == locked => Holding # {}

\* C33 witness: a callback raised, its wake() call is over and its thread has ended
\* with the worker left locked, and SystemLock is free while start() runs on
C33_Witness ==
    /\ ~locked /\ Holding = {} /\ At("w_stop") \cup At("w_test") \cup At("w_set") = {}
    /\ lpc = "l241"
    /\ \E w \in Workers : Orphaned(w) /\ wkill[w]

\* C34 as stated: once start() has returned because of stop(), and until it is called
\* again, no callback body begins executing, whatever threads are still running.
C34_NoCallbackAfterStop ==
    [][ (lpc = "idle" /\ lpc' = "idle") => \A o \in At("w_set") : ~Stepped(o) ]_vars

\* C34 amended: once start() has returned because of stop(), and until it is called
\* again, no listener thread is started: a callback can begin only in a thread that
\* start() launched before it returned, and in each such thread once at most.
C34_OnlyThreadsInFlight ==
    [][ (lpc = "idle" /\ lpc' = "idle") =>
            /\ \A n \in At("l71")' : n \in At("l71") /\ threads'[n] <= threads[n]
            /\ \A o \in At("w_set") : Stepped(o) => ~o.ran ]_vars

\* C34 witness: start() has returned because of stop(), and a wake() call that had
\* passed its last checkpoint and the lock test is about to enter its callback
C34_Witness ==
    /\ lpc = "idle" /\ ~kill
    /\ \E t \in At("w_set") : DictGet(wake_word_map, t.word) = "cbA"

\* C35: a kill request on a worker that is not mid-cycle (its locked flag is false)
\* is consumed by one launch of the worker: the launch passes line 71, and at
\* checkpoint A it finds kill set, clears it and ends without recording; a launch
\* that finds kill clear and SystemLock free at checkpoint A goes on, sets the
\* worker's locked flag and records. So a worker that was idle at a wake event
\* skips its first relaunch only.
C35_KillConsumedOnce ==
    [][ /\ \A o \in At("l71") : (Stepped(o) /\ ~wlocked[o.w]) =>
              Move(o, [o EXCEPT !.pc = "cpA"])
        /\ \A o \in At("cpA") : (Stepped(o) /\ wkill[o.w]) =>
              Exit(o) /\ ~wkill'[o.w] /\ ~wlocked'[o.w]
        /\ \A o \in At("cpA") : (Stepped(o) /\ ~wkill[o.w] /\ ~locked) =>
              Move(o, [o EXCEPT !.pc = "l78"]) /\ UNCHANGED << wkill, wlocked >>
        /\ \A o \in At("l78") : Stepped(o) =>
              Move(o, [o EXCEPT !.pc = "rec"]) /\ wlocked'[o.w] ]_vars

\* C35 witness: a wake event is over (its call is back in its listener, SystemLock
\* is free); a worker that was idle then, with the kill flag the event set, has been
\* relaunched and is at checkpoint A
C35_Witness ==
    \E t \in At("cpA"), u \in At("ret") :
        /\ u.ran /\ u.w # t.w
        /\ wkill[t.w] /\ ~wlocked[t.w] /\ Cycling(t.w) = 0
        /\ ~locked /\ ~kill

\* C36: a stop() issued while start() is not running is not lost and is consumed
\* once: calling start() leaves kill set and leads to the kill test of the first
\* slot; that test, the only step that clears kill, clears it and returns with no
\* thread started; and a kill test that finds kill clear (the start() after that)
\* goes on into the loop.
C36_PendingStopConsumedOnce ==
    [][ /\ (lpc = "idle" /\ lpc' # "idle") =>
              lpc' = "l238" /\ li' = 1 /\ kill' = kill /\ threads' = threads
        /\ (kill /\ ~kill') => (lpc = "l238" /\ lpc' = "idle" /\ threads' = threads)
        /\ (lpc = "l238" /\ lpc' \notin {"l238", "l248"}) =>
              IF kill THEN lpc' = "idle" /\ ~kill' ELSE lpc' = "l241" /\ ~kill' ]_vars

\* C36 witness: stop() was called while start() was not running and nothing had
\* been launched; start() has now been called and is at its first kill test
C36_Witness ==
    /\ lpc = "l238" /\ li = 1 /\ slept = 0
    /\ kill /\ wkill = AllTrue
    /\ threads = EmptyBag /\ wlocked = AllFalse /\ lateLaunch = 0

\* the keys of wake_word_map found in segment text that are bound to cb-kind callbacks
UserKeysIn(text) == {j \in KeysIn(text) : wake_word_map[j].v # "stop"}
TermKeysIn(text) == {j \in KeysIn(text) : wake_word_map[j].v = "stop"}

\* C37: when the segment a worker matched contains a wake word of the caller and a
\* terminate word, wake() is called with a wake word of the caller (the caller's
\* words precede the terminate words in the keys of wake_word_map), and the
\* callback that call invokes is the caller's, not stop.
C37_CallerWordFirst ==
    /\ \A i, j \in DOMAIN wake_word_map :
          (wake_word_map[i].v # "stop" /\ wake_word_map[j].v = "stop") => i < j
    /\ \A t \in Live :
          (t.word # NoWord /\ UserKeysIn(t.heard[Taken(t)]) # {}
              /\ TermKeysIn(t.heard[Taken(t)]) # {})
          => /\ IsUserWord(t.word) /\ ~IsTerminate(t.word)
             /\ t.ran => t.cb # "stop"

\* C37 witness: the caller's callback is running for a segment that contains a
\* terminate word ahead of the caller's wake word
C37_Witness ==
    \E t \in At("cb") :
        /\ t.cb # "stop"
        /\ Len(t.heard[Taken(t)]) = 2
        /\ IsTerminate(Lower(<<t.heard[Taken(t)][1]>>))
        /\ t.word = Lower(<<t.heard[Taken(t)][2]>>)

\* this step is a stop() call made from outside the listener threads: the only
\* step that leaves the loop of start() and every thread where they are
OutsideStopStep == threads' = threads /\ UNCHANGED loopVars

\* C38: stop() changes the kill flags only. A stop() call, from outside or as the
\* terminate handler, leaves SystemLock, every worker's locked flag and
\* wake_word_map unchanged; a callback that is running when stop() is called from
\* outside goes on running, with SystemLock as it was.
C38_StopFrame ==
    [][ /\ (OutsideStopStep \/ \E o \in At("cb") : o.cb = "stop" /\ Stepped(o)) =>
              UNCHANGED << locked, wlocked, wake_word_map >>
        /\ OutsideStopStep =>
              /\ At("cb")' = At("cb")
              /\ kill' /\ wkill' = AllTrue ]_vars

\* C38 witness: stop() was called while a callback of the caller was running: the
\* callback still runs and SystemLock is still held, with every kill flag set
C38_Witness ==
    /\ kill /\ wkill = AllTrue /\ locked
    /\ lpc \in LoopLines
    /\ \E t \in At("cb") : t.cb = "cbA"

====
